---- MODULE Spec2Model ----
(***************************************************************************)
(* Model of src/src/internal_ga.js, class VnsGaUtil (latest generation):   *)
(* the rule registry, the visibility tracking engine (intersection         *)
(* callbacks, per-rule timers, scroll sampling, unload flush) and the      *)
(* return-visit tracker.                                                   *)
(*                                                                         *)
(* Numbers.  Scroll depths are JavaScript numbers.  A finite depth is      *)
(* modelled as an integer count of hundredths of a percent (toFixed(2) is  *)
(* the finest rounding in the code), so 62.5% is 6250.  NaN and Infinity   *)
(* are two values outside the finite range, and the Js* operators give     *)
(* the arithmetic and the comparisons their JavaScript meaning.            *)
(* Times are milliseconds.                                                 *)
(***************************************************************************)
EXTENDS Integers, Sequences, FiniteSets

\* ---------------------------------------------------------------- bounds
MaxRules == 2
MaxEpisodes == 2
MaxTicks == 2
MaxEvents == 5
MaxTrackCalls == 2
MaxLoads == 2
MaxReturnCalls == 2
MaxUnloads == 1
MaxLegacyIds == 4
MaxTop == 10
MaxHeight == 8

\* ------------------------------------------------- JavaScript numbers
NaN == 0 - 7777777
Infinity == 9999999
Undefined == 0 - 8888888

IsNaN(a) == a = NaN

JsAdd(a, b) ==
  IF IsNaN(a) \/ IsNaN(b) THEN NaN
  ELSE IF a = Infinity \/ b = Infinity THEN Infinity
  ELSE a + b

JsSub(a, b) ==
  IF IsNaN(a) \/ IsNaN(b) THEN NaN
  ELSE IF a = Infinity /\ b = Infinity THEN NaN
  ELSE IF a = Infinity THEN Infinity
  ELSE a - b

JsMin(a, b) ==
  IF IsNaN(a) \/ IsNaN(b) THEN NaN
  ELSE IF a <= b THEN a ELSE b

JsMax(a, b) ==
  IF IsNaN(a) \/ IsNaN(b) THEN NaN
  ELSE IF a >= b THEN a ELSE b

\* a < b in JavaScript: false as soon as one side is NaN
JsLt(a, b) == ~IsNaN(a) /\ ~IsNaN(b) /\ a < b

\* a whole percentage (a rule threshold, the literal 100) as a depth
Pct(p) == IF p \in {NaN, Infinity} THEN p ELSE 100 * p

\* x || d for a number: undefined, 0 and NaN are falsy
OrDefault(x, d) == IF x = Undefined \/ x = 0 \/ IsNaN(x) THEN d ELSE x

\* x || d for a string: undefined ("") and the empty string are falsy
OrDefaultStr(x, d) == IF x = "" THEN d ELSE x

\* settings with every field left out
NoSettings == [selector |-> "", scrollDepth |-> Undefined, viewTime |-> Undefined,
               customEvent |-> ""]

\* +((num / den) * 100).toFixed(2), num >= 0, den >= 0
ToFixed2Pct(num, den) ==
  IF den = 0 THEN (IF num = 0 THEN NaN ELSE Infinity)
  ELSE (2 * 10000 * num + den) \div (2 * den)

\* Math.round((num / den) * 100) as a depth, den > 0, num >= 0
RoundPct(num, den) == 100 * ((2 * 100 * num + den) \div (2 * den))

Max2(a, b) == IF a >= b THEN a ELSE b
Min2(a, b) == IF a <= b THEN a ELSE b

\* ------------------------------------------------------------ the page
Elements == {1, 2}
ViewportHeight == 4

DefaultSelector(section) == "[data-internal-view=\"" \o section \o "\"]"

\* the selectors an element of the page matches: both elements carry
\* data-internal-view="how-it-works", element 2 also has class "c"
ElementMatches(e, selector) ==
  \/ selector = DefaultSelector("how-it-works")
  \/ e = 2 /\ selector = ".c"

\* bounding rectangles the layout can report (top, height), in CSS pixels:
\* an element of height 8 just below the fold, the same element scrolled
\* 1 pixel past the top of the viewport, and an element of height 0
Rects == {[top |-> 4, height |-> 8], [top |-> 0 - 1, height |-> 8],
          [top |-> 0, height |-> 0]}

\* the rectangle touches or overlaps the viewport
RectIntersects(rect) ==
  rect.top <= ViewportHeight /\ rect.top + rect.height >= 0

\* entry.intersectionRatio * 100 as a depth; a zero-area target that
\* intersects has ratio 1
IntersectionRatioPct(rect) ==
  IF rect.height = 0 THEN 10000
  ELSE LET overlap == Max2(0, Min2(rect.top + rect.height, ViewportHeight)
                               - Max2(rect.top, 0))
       IN  (10000 * overlap) \div rect.height

VARIABLES
  sectionVisibility,      \* #sectionVisibility: rule id -> settings
  selectorVisibilityMap,  \* #selectorVisibilityMap: selector -> list of settings
  selectorKeys,           \* insertion order of the keys of #selectorVisibilityMap
  sectionMap,             \* #sectionMap: episode id -> SectionTrackedData
  dataLayer,              \* window.dataLayer
  emitLog,                \* for each record of dataLayer: episode, rule and path
  droppedAt,              \* for each removed rule: the episodes minted before its removal
  addedAt,                \* for each rule: the episodes minted before its registration
  callSettings,           \* the settings argument of the latest addSectionVisibility call
  timers,                 \* armed setTimeout callbacks
  now,                    \* Date.now()
  ruleCount,              \* rule ids minted by randomUUID
  episodeCount,           \* episode ids minted by randomUUID
  inDocument,             \* the elements attached to the document
  attrSelector,           \* data-internal-view-selector of each element
  attrId,                 \* data-internal-view-id of each element
  observed,               \* targets of #sectionObserver
  isIntersecting,         \* last intersection state notified per element
  initialized,            \* #isVisibilityTrackingInitialized
  listenerSets,           \* runs of the two init functions: each creates one
                          \* IntersectionObserver, one sendLastSection beforeunload
                          \* handler and one scroll / resize listener pair
  ticking,                \* the ticking flag of onScroll
  frames,                 \* requestAnimationFrame callbacks scheduled and not yet run
  mutationObservers,      \* MutationObservers created by trackSectionVisibility
  trackingId,             \* #trackingId
  cookie,                 \* the cookie jar behind document.cookie
  closeTabHandlers,       \* beforeunload handlers armed by trackUserReturn
  returnCalls,            \* calls of trackUserReturn on this page
  pageOpen,               \* the page has not been abandoned
  unloads,                \* beforeunload events on this page
  loads,                  \* page loads so far
  sample                  \* the geometry last probed and the depths computed from it

vars == <<sectionVisibility, selectorVisibilityMap, selectorKeys, sectionMap,
          dataLayer, emitLog, droppedAt, addedAt, callSettings, timers, now, ruleCount,
          episodeCount, inDocument, attrSelector, attrId, observed, isIntersecting,
          initialized, listenerSets, ticking, frames, mutationObservers, trackingId, cookie, closeTabHandlers,
          returnCalls, pageOpen, unloads, loads, sample>>

registryVars == <<sectionVisibility, selectorVisibilityMap, selectorKeys, ruleCount,
                  droppedAt, addedAt, callSettings>>
domVars == <<inDocument, attrSelector, attrId, observed, isIntersecting>>
engineVars == <<sectionMap, timers, episodeCount, initialized, listenerSets,
                ticking, frames, mutationObservers>>
sessionVars == <<trackingId, cookie, closeTabHandlers, returnCalls, pageOpen,
                 unloads, loads>>

\* no geometry probed yet
NoSample == [rect |-> [top |-> 0, height |-> 0], taken |-> FALSE,
             ratioTop |-> 0, visibleRatio |-> 0, depth |-> 0]

\* the state of a freshly constructed VnsGaUtil on a freshly loaded page
FreshPage ==
  /\ sectionVisibility = <<>>
  /\ selectorVisibilityMap = <<>>
  /\ selectorKeys = <<>>
  /\ sectionMap = <<>>
  /\ dataLayer = <<>>
  /\ emitLog = <<>>
  /\ droppedAt = <<>>
  /\ addedAt = <<>>
  /\ callSettings = NoSettings
  /\ timers = {}
  /\ ruleCount = 0
  /\ episodeCount = 0
  /\ inDocument = {1}
  /\ attrSelector = [e \in Elements |-> ""]
  /\ attrId = [e \in Elements |-> 0]
  /\ observed = {}
  /\ isIntersecting = [e \in Elements |-> FALSE]
  /\ initialized = FALSE
  /\ listenerSets = 0
  /\ ticking = FALSE
  /\ frames = 0
  /\ mutationObservers = 0
  /\ closeTabHandlers = 0
  /\ returnCalls = 0
  /\ pageOpen = TRUE
  /\ unloads = 0

Init ==
  /\ FreshPage
  /\ now = 0
  /\ trackingId = "G1"
  /\ cookie = <<>>
  /\ loads = 1
  /\ sample = NoSample

\* ------------------------------------------------------- rule registry
MapGet(m, k, d) == IF k \in DOMAIN m THEN m[k] ELSE d
MapSet(m, k, v) == [x \in DOMAIN m \cup {k} |-> IF x = k THEN v ELSE m[x]]

\* a delete that removes nothing
MapDeleteNothing(m, k) == m

\* a delete that empties the map
MapDeleteAll(m, k) == <<>>

\* Map.prototype.delete
MapDelete(m, k) == [x \in DOMAIN m \ {k} |-> m[x]]

\* a clamp that passes every value through
ClaimNothing(value, min, max) == value

Claim(value, min, max) == JsMin(max, JsMax(min, value))

\* the record addSectionVisibility stores
NewSettings(id, section, settings) ==
  [id |-> id,
   section |-> section,
   selector |-> OrDefaultStr(settings.selector, DefaultSelector(section)),
   scrollDepth |-> Claim(OrDefault(settings.scrollDepth, 70), 0, 100),
   viewTime |-> JsMax(OrDefault(settings.viewTime, 3000), 0),
   customEvent |-> OrDefaultStr(settings.customEvent, "")]

AddSectionVisibility(section, settings) ==
  /\ pageOpen
  /\ ruleCount < MaxRules
  /\ LET id == ruleCount + 1
         s == NewSettings(id, section, settings)
         selectorSettings == MapGet(selectorVisibilityMap, s.selector, <<>>)
     IN  /\ ruleCount' = id
         /\ callSettings' = settings
         /\ addedAt' = MapSet(addedAt, id, episodeCount)
         /\ sectionVisibility' = MapSet(sectionVisibility, id, s)
         /\ selectorVisibilityMap' =
              MapSet(selectorVisibilityMap, s.selector, Append(selectorSettings, s))
         /\ selectorKeys' = IF s.selector \in DOMAIN selectorVisibilityMap
                            THEN selectorKeys
                            ELSE Append(selectorKeys, s.selector)
  /\ UNCHANGED <<droppedAt, sectionMap, dataLayer, emitLog, timers, now, domVars,
                 episodeCount, initialized, listenerSets, ticking, frames, mutationObservers,
                 sessionVars, sample>>

\* a removal that takes the last rule of the list, whatever its id
FilterOutLast(list, id) == SubSeq(list, 1, Len(list) - 1)

\* a removal that leaves the selector's list as it was
FilterOutNothing(list, id) == list

FilterOut(list, id) == SelectSeq(list, LAMBDA s : s.id # id)

\* a removal that, on an id it does not find, empties every selector's list
DropRegistryOrClear(id) ==
  IF id \notin DOMAIN sectionVisibility
  THEN [sectionVisibility |-> sectionVisibility,
        selectorVisibilityMap |-> [k \in DOMAIN selectorVisibilityMap |-> <<>>]]
  ELSE LET selector == sectionVisibility[id].selector
           old == MapGet(selectorVisibilityMap, selector, <<>>)
       IN  [sectionVisibility |-> MapDelete(sectionVisibility, id),
            selectorVisibilityMap |->
              IF Len(old) <= 0 THEN selectorVisibilityMap
              ELSE MapSet(selectorVisibilityMap, selector, FilterOut(old, id))]

\* the two rule maps as dropSectionVisibility(id) leaves them
DropRegistry(id) ==
  IF id \notin DOMAIN sectionVisibility
  THEN [sectionVisibility |-> sectionVisibility,
        selectorVisibilityMap |-> selectorVisibilityMap]
  ELSE LET selector == sectionVisibility[id].selector
           old == MapGet(selectorVisibilityMap, selector, <<>>)
       IN  [sectionVisibility |-> MapDelete(sectionVisibility, id),
            selectorVisibilityMap |->
              IF Len(old) <= 0 THEN selectorVisibilityMap
              ELSE MapSet(selectorVisibilityMap, selector, FilterOut(old, id))]

DropSectionVisibility(id) ==
  /\ pageOpen
  /\ sectionVisibility' = DropRegistry(id).sectionVisibility
  /\ selectorVisibilityMap' = DropRegistry(id).selectorVisibilityMap
  /\ droppedAt' = IF id \in DOMAIN sectionVisibility
                  THEN MapSet(droppedAt, id, episodeCount)
                  ELSE droppedAt
  /\ UNCHANGED <<selectorKeys, ruleCount, addedAt, callSettings, sectionMap, dataLayer,
                 emitLog, timers, now, domVars, episodeCount, initialized, listenerSets, ticking, frames,
                 mutationObservers, sessionVars, sample>>

\* ------------------------------------------------------------ event sink
\* a sink that puts the payloads in front of the records already there
SendInternalGAEventFront(payloads, logs) ==
  /\ Len(dataLayer) + Len(payloads) <= MaxEvents
  /\ dataLayer' = payloads \o dataLayer
  /\ emitLog' = logs \o emitLog

\* #_sendInternalGAEvent: push the payloads at the end of window.dataLayer
SendInternalGAEvent(payloads, logs) ==
  /\ Len(dataLayer) + Len(payloads) <= MaxEvents
  /\ dataLayer' = dataLayer \o payloads
  /\ emitLog' = emitLog \o logs

EventName(setting) ==
  IF setting.customEvent # "" THEN setting.customEvent
  ELSE "view_" \o setting.section

RulePayload(setting, viewTime, scrollDepth) ==
  [event |-> EventName(setting), section |-> setting.section,
   view_time |-> viewTime, scroll_depth |-> scrollDepth]

\* a summary that reports no dwell time
SummaryPayloadNoTime(selector, viewTime, scrollDepth) ==
  [event |-> "section_view", section |-> selector,
   view_time |-> 0, scroll_depth |-> scrollDepth]

\* the terminal summary of an episode
SummaryPayload(selector, viewTime, scrollDepth) ==
  [event |-> "section_view", section |-> selector,
   view_time |-> viewTime, scroll_depth |-> scrollDepth]

LogEntry(episode, element, rule, path) ==
  [episode |-> episode, element |-> element, rule |-> rule, path |-> path]

Includes(list, x) == \E i \in 1..Len(list) : list[i] = x

\* ------------------------------------------------- intersection subsystem
\* an enter that arms no timer
ArmedTimersNone(id, settings) == {}

\* the timers armed on enter: one per rule of the selector with viewTime > 0
ArmedTimers(id, settings) ==
  {[id |-> id, setting |-> settings[i], due |-> now + settings[i].viewTime] :
     i \in {j \in 1..Len(settings) : settings[j].viewTime > 0}}

\* IntersectionObserver callback, entry.isIntersecting = true
IntersectionEnter(e, rect) ==
  /\ pageOpen
  /\ e \in observed
  /\ ~isIntersecting[e]
  /\ RectIntersects(rect)
  /\ isIntersecting' = [isIntersecting EXCEPT ![e] = TRUE]
  /\ IF attrSelector[e] = ""
     THEN UNCHANGED <<attrId, sectionMap, timers, episodeCount>>
     ELSE /\ episodeCount < MaxEpisodes
          /\ LET id == episodeCount + 1
                 selector == attrSelector[e]
                 visibleTop == Max2(0, 0 - rect.top)
                 ratioTop == ToFixed2Pct(visibleTop, rect.height)
                 settings == MapGet(selectorVisibilityMap, selector, <<>>)
             IN  /\ episodeCount' = id
                 /\ attrId' = [attrId EXCEPT ![e] = id]
                 /\ sectionMap' = MapSet(sectionMap, id,
                      [start |-> now,
                       duration |-> 0,
                       minScrollDepth |-> ratioTop,
                       maxScrollDepth |->
                         JsMin(JsAdd(ratioTop, IntersectionRatioPct(rect)), Pct(100)),
                       element |-> e,
                       selector |-> selector,
                       id |-> id,
                       sentEventIds |-> <<>>])
                 /\ timers' = timers \cup ArmedTimers(id, settings)
  /\ UNCHANGED <<registryVars, dataLayer, emitLog, now, inDocument, attrSelector,
                 observed, initialized, listenerSets, ticking, frames, mutationObservers, sessionVars, sample>>

\* IntersectionObserver callback, entry.isIntersecting = false
IntersectionExit(e) ==
  /\ pageOpen
  /\ e \in observed
  /\ isIntersecting[e]
  /\ isIntersecting' = [isIntersecting EXCEPT ![e] = FALSE]
  /\ IF attrSelector[e] = "" \/ attrId[e] = 0 \/ attrId[e] \notin DOMAIN sectionMap
     THEN UNCHANGED <<sectionMap, dataLayer, emitLog>>
     ELSE LET outId == attrId[e]
              tracked == sectionMap[outId]
              duration == now - tracked.start
              scrollDepth == JsSub(tracked.maxScrollDepth, tracked.minScrollDepth)
          IN  /\ SendInternalGAEvent(
                   <<SummaryPayload(attrSelector[e], duration, scrollDepth)>>,
                   <<LogEntry(outId, e, 0, "exit")>>)
              /\ sectionMap' = MapDelete(sectionMap, outId)
  /\ UNCHANGED <<registryVars, timers, now, episodeCount, inDocument,
                 attrSelector, attrId, observed, initialized, listenerSets, ticking, frames, mutationObservers, sessionVars, sample>>

\* a callback that looks up the newest episode instead of its own
TimerTargetNewest(t) == episodeCount

\* the episode id the callback closes over (const id of the enter branch)
TimerTarget(t) == t.id

\* the setTimeout callback armed on enter for (episode t.id, rule t.setting)
TimerFire(t) ==
  /\ pageOpen
  /\ t \in timers
  /\ now >= t.due
  /\ timers' = timers \ {t}
  /\ IF TimerTarget(t) \notin DOMAIN sectionMap
     THEN UNCHANGED <<sectionMap, dataLayer, emitLog>>
     ELSE LET newSection == sectionMap[TimerTarget(t)]
              sentIds == newSection.sentEventIds
              scrollDepth == JsSub(newSection.maxScrollDepth, newSection.minScrollDepth)
          IN  IF Includes(sentIds, t.setting.id)
                 \/ JsLt(scrollDepth, Pct(t.setting.scrollDepth))
              THEN UNCHANGED <<sectionMap, dataLayer, emitLog>>
              ELSE /\ SendInternalGAEvent(
                        <<RulePayload(t.setting, t.setting.viewTime, scrollDepth)>>,
                        <<LogEntry(newSection.id, newSection.element, t.setting.id,
                                   "timer")>>)
                   /\ sectionMap' = [sectionMap EXCEPT ![TimerTarget(t)].sentEventIds =
                                       Append(sentIds, t.setting.id)]
  /\ UNCHANGED <<registryVars, now, episodeCount, domVars, initialized, listenerSets, ticking, frames,
                 mutationObservers, sessionVars, sample>>

\* ------------------------------------------------ scroll-sampling subsystem
\* the depth bounds handleElementScroll computes from the live geometry
RatioTop(rect) == ToFixed2Pct(Max2(0, 0 - rect.top), rect.height)

VisibleRatio(rect) ==
  LET elementTop == rect.top
      elementBottom == rect.top + rect.height
      elementHeight == rect.height
      visibleTop == Max2(0, 0 - elementTop)
  IN  IF elementBottom < 0 THEN 0
      ELSE IF elementTop > ViewportHeight THEN 0
      ELSE LET visibleBottom == Min2(elementHeight, ViewportHeight - elementTop)
               visibleHeight == Max2(0, visibleBottom - visibleTop)
           IN  IF elementHeight > 0 THEN RoundPct(visibleHeight, elementHeight) ELSE 0

\* a depth that is not capped at 100
DepthUncapped(rect) == JsAdd(RatioTop(rect), VisibleRatio(rect))

Depth(rect) == JsMin(JsAdd(RatioTop(rect), VisibleRatio(rect)), Pct(100))

\* the rule loop of handleElementScroll, from rule i on.  sentEventIds is the
\* list read once before the loop; acc holds the payloads pushed so far and
\* the value last assigned to section._sentEventIds, [...sentEventIds, settingId]
RECURSIVE RuleLoop(_, _, _, _, _, _, _)
RuleLoop(settings, i, sentEventIds, section, duration, sectionView, acc) ==
  IF i > Len(settings) THEN acc
  ELSE LET setting == settings[i]
       IN  IF \/ Includes(sentEventIds, setting.id)
              \/ JsLt(sectionView, Pct(setting.scrollDepth))
              \/ duration < setting.viewTime
           THEN RuleLoop(settings, i + 1, sentEventIds, section, duration,
                         sectionView, acc)
           ELSE RuleLoop(settings, i + 1, sentEventIds, section, duration,
                         sectionView,
                         [payloads |-> Append(acc.payloads,
                                        RulePayload(setting, duration, sectionView)),
                          logs |-> Append(acc.logs,
                                        LogEntry(section.id, section.element, setting.id, "scroll")),
                          sent |-> Append(sentEventIds, setting.id)])

\* handleElementScroll(section) with the element's rectangle rect
HandleElementScroll(section, rect) ==
  LET selector == attrSelector[section.element]
  IN  IF selector = ""
      THEN [section |-> section, payloads |-> <<>>, logs |-> <<>>]
      ELSE LET minD == JsMin(section.minScrollDepth, RatioTop(rect))
               maxD == JsMax(section.maxScrollDepth, Depth(rect))
               duration == now - section.start
               sectionView == JsSub(maxD, minD)
               settings == MapGet(selectorVisibilityMap, selector, <<>>)
               r == RuleLoop(settings, 1, section.sentEventIds, section,
                             duration, sectionView,
                             [payloads |-> <<>>, logs |-> <<>>,
                              sent |-> section.sentEventIds])
           IN  [section |-> [section EXCEPT !.minScrollDepth = minD,
                                            !.maxScrollDepth = maxD,
                                            !.sentEventIds = r.sent],
                payloads |-> r.payloads,
                logs |-> r.logs]

\* the keys of a map with integer keys, in insertion (= minting) order
RECURSIVE KeysInOrder(_)
KeysInOrder(S) ==
  IF S = {} THEN <<>>
  ELSE LET m == CHOOSE x \in S : \A y \in S : x <= y
       IN  <<m>> \o KeysInOrder(S \ {m})

\* sections.forEach(handleElementScroll) of the animation-frame callback
RECURSIVE FramePass(_, _, _, _)
FramePass(ids, i, rects, acc) ==
  IF i > Len(ids) THEN acc
  ELSE LET r == HandleElementScroll(sectionMap[ids[i]], rects[ids[i]])
       IN  FramePass(ids, i + 1, rects,
                     [map |-> [acc.map EXCEPT ![ids[i]] = r.section],
                      payloads |-> acc.payloads \o r.payloads,
                      logs |-> acc.logs \o r.logs])

\* a listener that schedules a frame on every event, pending frame or not
OnScrollUnguarded ==
  /\ pageOpen
  /\ initialized
  /\ ticking' = TRUE
  /\ frames' = IF frames < 2 THEN frames + 1 ELSE frames
  /\ UNCHANGED <<registryVars, sectionMap, dataLayer, emitLog, timers, now,
                 episodeCount, domVars, initialized, listenerSets, mutationObservers,
                 sessionVars, sample>>

\* the scroll / resize listener: schedules a frame unless one is pending
OnScroll ==
  /\ pageOpen
  /\ initialized
  /\ IF ~ticking
     THEN ticking' = TRUE /\ frames' = frames + 1
     ELSE UNCHANGED <<ticking, frames>>
  /\ UNCHANGED <<registryVars, sectionMap, dataLayer, emitLog, timers, now,
                 episodeCount, domVars, initialized, listenerSets, mutationObservers,
                 sessionVars, sample>>

\* a frame callback that runs the pass and leaves the flag set
AnimationFrameKeepsFlag(rects) ==
  /\ pageOpen
  /\ frames > 0
  /\ frames' = frames - 1
  /\ ticking' = ticking
  /\ \E sections \in {KeysInOrder(DOMAIN sectionMap)} :
       \E r \in {FramePass(sections, 1, rects,
                           [map |-> sectionMap, payloads |-> <<>>, logs |-> <<>>])} :
         /\ sectionMap' = r.map
         /\ SendInternalGAEvent(r.payloads, r.logs)
  /\ UNCHANGED <<registryVars, timers, now, episodeCount, domVars, initialized,
                 listenerSets, mutationObservers, sessionVars, sample>>

\* the requestAnimationFrame callback; rects is the geometry it reads
AnimationFrame(rects) ==
  /\ pageOpen
  /\ frames > 0
  /\ frames' = frames - 1
  /\ ticking' = FALSE
  /\ \E sections \in {KeysInOrder(DOMAIN sectionMap)} :
       \E r \in {FramePass(sections, 1, rects,
                           [map |-> sectionMap, payloads |-> <<>>, logs |-> <<>>])} :
         /\ sectionMap' = r.map
         /\ SendInternalGAEvent(r.payloads, r.logs)
  /\ UNCHANGED <<registryVars, timers, now, episodeCount, domVars, initialized, listenerSets,
                 mutationObservers, sessionVars, sample>>

\* -------------------------------------------------------- activation
\* the selector the initial scan leaves on element e: the last key of
\* #selectorVisibilityMap, in insertion order, that the element matches
RECURSIVE ScanSelector(_, _, _)
ScanSelector(e, i, current) ==
  IF i > Len(selectorKeys) THEN current
  ELSE ScanSelector(e, i + 1,
                    IF ElementMatches(e, selectorKeys[i]) THEN selectorKeys[i]
                    ELSE current)

ScanMatched == {e \in inDocument :
                  \E i \in 1..Len(selectorKeys) : ElementMatches(e, selectorKeys[i])}

\* an initialisation that runs on every call
InitRunsAlways == TRUE

\* #_initVisibilityTracking: the two init functions run only when the
\* instance is not initialised yet
InitRuns == ~initialized

\* trackSectionVisibility(): #_initVisibilityTracking, a new MutationObserver
\* and the initial scan (#_trackSectionView on every match).  A run of the init
\* functions adds one set of listeners and ends with a call of a new onScroll,
\* whose flag is clear, so it schedules a frame.
TrackSectionVisibility ==
  /\ pageOpen
  /\ mutationObservers < MaxTrackCalls
  /\ initialized' = TRUE
  /\ listenerSets' = IF InitRuns THEN listenerSets + 1 ELSE listenerSets
  /\ ticking' = IF InitRuns THEN TRUE ELSE ticking
  /\ frames' = IF InitRuns THEN frames + 1 ELSE frames
  /\ mutationObservers' = mutationObservers + 1
  /\ attrSelector' = [e \in Elements |->
                        IF e \in inDocument THEN ScanSelector(e, 1, attrSelector[e])
                        ELSE attrSelector[e]]
  /\ observed' = observed \cup ScanMatched
  /\ UNCHANGED <<registryVars, sectionMap, dataLayer, emitLog, timers, now,
                 episodeCount, inDocument, attrId, isIntersecting, sessionVars, sample>>

\* ------------------------------------------------------------ cookie store
Digits == <<"0", "1", "2", "3", "4", "5", "6", "7", "8", "9">>

\* Number.prototype.toString for a non-negative integer, as its characters
RECURSIVE ToString(_)
ToString(n) ==
  IF n < 10 THEN <<Digits[n + 1]>>
  ELSE Append(ToString(n \div 10), Digits[(n % 10) + 1])

DigitValue(c) == CHOOSE d \in 0..9 : Digits[d + 1] = c

\* unary plus on a string: the empty string is 0, a string with a character
\* that is not a digit is NaN
RECURSIVE ToNumber(_)
ToNumber(str) ==
  IF str = <<>> THEN 0
  ELSE IF \E i \in 1..Len(str) : \A d \in 1..10 : Digits[d] # str[i] THEN NaN
  ELSE 10 * ToNumber(SubSeq(str, 1, Len(str) - 1)) + DigitValue(str[Len(str)])

SessionKey(id) == "__internal_ga_session_" \o id \o "__"

\* a lookup that takes the first cookie of the jar, whatever its name
ReadCookieFirst(name) ==
  IF Len(cookie) >= 1 THEN [found |-> TRUE, value |-> cookie[1].value]
  ELSE [found |-> FALSE, value |-> <<>>]

\* #_readCookie: the value when "; name=" splits the cookie string in exactly
\* two parts, null otherwise.  The jar holds the cookies document.cookie
\* shows, as name and value; the code sets every expiry 365 days ahead, far
\* beyond the times of the model, so no cookie of the jar expires.
ReadCookie(name) ==
  LET hits == SelectSeq(cookie, LAMBDA c : c.name = name)
  IN  IF Len(hits) = 1 THEN [found |-> TRUE, value |-> hits[1].value]
      ELSE [found |-> FALSE, value |-> <<>>]

\* #_writeCookie: the assignment to document.cookie replaces the cookie of
\* that name or adds it
WriteCookie(jar, name, value) ==
  LET c == [name |-> name, value |-> value]
  IN  IF \E i \in 1..Len(jar) : jar[i].name = name
      THEN [i \in 1..Len(jar) |-> IF jar[i].name = name THEN c ELSE jar[i]]
      ELSE Append(jar, c)

\* ------------------------------------------------ return-visit tracker
TrackUserReturn ==
  /\ pageOpen
  /\ returnCalls < MaxReturnCalls
  /\ returnCalls' = returnCalls + 1
  /\ LET lastVisit == ReadCookie(SessionKey(trackingId))
     IN  IF ~lastVisit.found \/ lastVisit.value = <<>>
         THEN UNCHANGED <<dataLayer, emitLog, closeTabHandlers>>
         ELSE /\ SendInternalGAEvent(
                   <<[event |-> "return_visit",
                      duration |-> JsSub(now, ToNumber(lastVisit.value))]>>,
                   <<LogEntry(0, 0, 0, "return")>>)
              /\ closeTabHandlers' = closeTabHandlers + 1
  /\ UNCHANGED <<registryVars, engineVars, now, domVars, trackingId, cookie,
                 pageOpen, unloads, loads, sample>>

\* ------------------------------------------------------------ page unload
\* sendLastSection: one summary per entry of #sectionMap
RECURSIVE LastSections(_, _)
LastSections(ids, i) ==
  IF i > Len(ids) THEN [payloads |-> <<>>, logs |-> <<>>]
  ELSE LET section == sectionMap[ids[i]]
           rest == LastSections(ids, i + 1)
       IN  [payloads |->
              <<SummaryPayload(section.selector, now - section.start,
                               JsSub(section.maxScrollDepth, section.minScrollDepth))>>
              \o rest.payloads,
            logs |-> <<LogEntry(section.id, section.element, 0, "unload")>> \o rest.logs]

\* n copies of a list, one after the other
RECURSIVE Repeat(_, _)
Repeat(list, n) == IF n <= 0 THEN <<>> ELSE list \o Repeat(list, n - 1)

\* the beforeunload event: runs every registered sendLastSection and every
\* handleCloseTab; close says whether the page is then left
BeforeUnload(close) ==
  /\ pageOpen
  /\ unloads < MaxUnloads
  /\ unloads' = unloads + 1
  /\ pageOpen' = ~close
  /\ LET r == LastSections(KeysInOrder(DOMAIN sectionMap), 1)
     IN  SendInternalGAEvent(Repeat(r.payloads, listenerSets),
                             Repeat(r.logs, listenerSets))
  /\ cookie' = IF closeTabHandlers > 0
               THEN WriteCookie(cookie, SessionKey(trackingId), ToString(now))
               ELSE cookie
  /\ UNCHANGED <<registryVars, engineVars, now, domVars, trackingId,
                 closeTabHandlers, returnCalls, loads, sample>>

\* the next load of the page: a new document and a new VnsGaUtil, the cookie
\* jar is kept
Load ==
  /\ ~pageOpen
  /\ loads < MaxLoads
  /\ loads' = loads + 1
  /\ sectionVisibility' = <<>>
  /\ selectorVisibilityMap' = <<>>
  /\ selectorKeys' = <<>>
  /\ sectionMap' = <<>>
  /\ dataLayer' = <<>>
  /\ emitLog' = <<>>
  /\ droppedAt' = <<>>
  /\ addedAt' = <<>>
  /\ callSettings' = NoSettings
  /\ timers' = {}
  /\ ruleCount' = 0
  /\ episodeCount' = 0
  /\ attrSelector' = [e \in Elements |-> ""]
  /\ attrId' = [e \in Elements |-> 0]
  /\ observed' = {}
  /\ isIntersecting' = [e \in Elements |-> FALSE]
  /\ initialized' = FALSE
  /\ listenerSets' = 0
  /\ ticking' = FALSE
  /\ frames' = 0
  /\ mutationObservers' = 0
  /\ closeTabHandlers' = 0
  /\ returnCalls' = 0
  /\ pageOpen' = TRUE
  /\ unloads' = 0
  /\ UNCHANGED <<now, trackingId, cookie, inDocument, sample>>

\* time passes
Tick ==
  /\ now < 1000 * MaxTicks
  /\ now' = now + 1000
  /\ UNCHANGED <<registryVars, engineVars, dataLayer, emitLog, domVars,
                 sessionVars, sample>>

\* ------------------------------------------------------- specifications
\* the registrations of the page script, in the order it makes them
RuleScript ==
  <<[section |-> "how-it-works",
     settings |-> [NoSettings EXCEPT !.scrollDepth = 20, !.viewTime = 1000,
                                     !.customEvent = "how-it-works_view"]],
    [section |-> "how-it-works",
     settings |-> [NoSettings EXCEPT !.scrollDepth = 60, !.viewTime = 2000,
                                     !.customEvent = "how-it-works_view_2000"]],
    [section |-> "hero",
     settings |-> [NoSettings EXCEPT !.scrollDepth = 50, !.viewTime = 3000,
                                     !.customEvent = "hero_view"]],
    [section |-> "features",
     settings |-> [NoSettings EXCEPT !.scrollDepth = 75, !.viewTime = 5000,
                                     !.customEvent = "features_view"]]>>

\* the next registration of the page script
RegisterNext ==
  /\ ruleCount < Len(RuleScript)
  /\ AddSectionVisibility(RuleScript[ruleCount + 1].section,
                          RuleScript[ruleCount + 1].settings)

Next ==
  \/ RegisterNext
  \/ \E id \in 1..MaxRules : DropSectionVisibility(id)
  \/ TrackSectionVisibility
  \/ \E e \in Elements, rect \in Rects : IntersectionEnter(e, rect)
  \/ \E e \in Elements : IntersectionExit(e)
  \/ \E t \in timers : TimerFire(t)
  \/ OnScroll
  \/ \E rects \in [DOMAIN sectionMap -> Rects] : AnimationFrame(rects)
  \/ Tick

Spec == Init /\ [][Next]_vars

\* The page once its script has run: the two how-it-works rules are
\* registered and trackSectionVisibility() has been called.
ScriptRule(k) == NewSettings(k, RuleScript[k].section, RuleScript[k].settings)

InitTracking ==
  /\ sectionVisibility = <<ScriptRule(1), ScriptRule(2)>>
  /\ selectorVisibilityMap =
       [sel \in {DefaultSelector("how-it-works")} |-> <<ScriptRule(1), ScriptRule(2)>>]
  /\ selectorKeys = <<DefaultSelector("how-it-works")>>
  /\ ruleCount = 2
  /\ callSettings = RuleScript[2].settings
  /\ sectionMap = <<>>
  /\ dataLayer = <<>>
  /\ emitLog = <<>>
  /\ droppedAt = <<>>
  /\ addedAt = <<0, 0>>
  /\ timers = {}
  /\ episodeCount = 0
  /\ inDocument = {1}
  /\ attrSelector = [e \in Elements |->
                       IF e = 1 THEN DefaultSelector("how-it-works") ELSE ""]
  /\ attrId = [e \in Elements |-> 0]
  /\ observed = {1}
  /\ isIntersecting = [e \in Elements |-> FALSE]
  /\ initialized = TRUE
  /\ listenerSets = 1
  /\ ticking = TRUE
  /\ frames = 1
  /\ mutationObservers = 1
  /\ closeTabHandlers = 0
  /\ returnCalls = 0
  /\ pageOpen = TRUE
  /\ unloads = 0
  /\ now = 0
  /\ trackingId = "G1"
  /\ cookie = <<>>
  /\ loads = 1
  /\ sample = NoSample

\* the engine with the page being left (or the leave being cancelled)
NextUnload ==
  \/ \E e \in Elements, rect \in Rects : IntersectionEnter(e, rect)
  \/ \E e \in Elements : IntersectionExit(e)
  \/ \E t \in timers : TimerFire(t)
  \/ OnScroll
  \/ \E rects \in [DOMAIN sectionMap -> Rects] : AnimationFrame(rects)
  \/ \E close \in BOOLEAN : BeforeUnload(close)
  \/ Tick

SpecUnload == InitTracking /\ [][NextUnload]_vars

\* The page of a script that registers the first how-it-works rule only and
\* calls trackSectionVisibility(); the browser runs every scheduled
\* animation-frame callback.
InitFrames ==
  /\ sectionVisibility = <<ScriptRule(1)>>
  /\ selectorVisibilityMap =
       [sel \in {DefaultSelector("how-it-works")} |-> <<ScriptRule(1)>>]
  /\ selectorKeys = <<DefaultSelector("how-it-works")>>
  /\ ruleCount = 1
  /\ callSettings = RuleScript[1].settings
  /\ sectionMap = <<>>
  /\ dataLayer = <<>>
  /\ emitLog = <<>>
  /\ droppedAt = <<>>
  /\ addedAt = <<0>>
  /\ timers = {}
  /\ episodeCount = 0
  /\ inDocument = {1}
  /\ attrSelector = [e \in Elements |->
                       IF e = 1 THEN DefaultSelector("how-it-works") ELSE ""]
  /\ attrId = [e \in Elements |-> 0]
  /\ observed = {1}
  /\ isIntersecting = [e \in Elements |-> FALSE]
  /\ initialized = TRUE
  /\ listenerSets = 1
  /\ ticking = TRUE
  /\ frames = 1
  /\ mutationObservers = 1
  /\ closeTabHandlers = 0
  /\ returnCalls = 0
  /\ pageOpen = TRUE
  /\ unloads = 0
  /\ now = 0
  /\ trackingId = "G1"
  /\ cookie = <<>>
  /\ loads = 1
  /\ sample = NoSample

NextFrames ==
  \/ \E e \in Elements, rect \in Rects : IntersectionEnter(e, rect)
  \/ \E e \in Elements : IntersectionExit(e)
  \/ \E t \in timers : TimerFire(t)
  \/ OnScroll
  \/ \E rects \in [DOMAIN sectionMap -> Rects] : AnimationFrame(rects)
  \/ Tick

SpecFrames ==
  /\ InitFrames
  /\ [][NextFrames]_vars
  /\ WF_vars(\E rects \in [DOMAIN sectionMap -> Rects] : AnimationFrame(rects))

\* the return-visit tracker over successive loads of the page
InitSession ==
  /\ FreshPage
  /\ now = 0
  /\ trackingId \in {"", "G1"}
  /\ cookie \in {<<>>,
                 <<[name |-> "theme", value |-> <<"1">>]>>,
                 <<[name |-> SessionKey("G1"), value |-> ToString(0)]>>}
  /\ loads = 1
  /\ sample = NoSample

NextSession ==
  \/ TrackUserReturn
  \/ \E close \in BOOLEAN : BeforeUnload(close)
  \/ Load
  \/ Tick

SpecSession == InitSession /\ [][NextSession]_vars

\* ---------------------------------------------------------------- claims
RuleEvents == {i \in 1..Len(emitLog) : emitLog[i].rule # 0}

\* C1: the event of a rule is appended to the data layer at most once per
\* episode, whatever the interleaving of enter, scroll sample, timer and exit
\* and however many rules of the selector fire within one scroll sample.
C1_RuleEventAtMostOncePerEpisode ==
  \A i, j \in RuleEvents :
    (i < j /\ emitLog[i].rule = emitLog[j].rule)
      => emitLog[i].episode # emitLog[j].episode

\* the records of episode ep in the data layer that carry the event name
EventsNamed(ep, name) ==
  {i \in 1..Len(dataLayer) : emitLog[i].episode = ep /\ dataLayer[i].event = name}

\* C2: once an episode has emitted the events of both how-it-works rules,
\* the data layer holds each of the two events exactly once for that episode,
\* each with its rule's section name, whatever samples and timers follow.
C2_TwoRulesEachExactlyOnce ==
  \A ep \in 1..episodeCount :
    LET first == EventsNamed(ep, "how-it-works_view")
        second == EventsNamed(ep, "how-it-works_view_2000")
    IN  (first # {} /\ second # {})
          => /\ Cardinality(first) = 1
             /\ Cardinality(second) = 1
             /\ \A i \in first \cup second : dataLayer[i].section = "how-it-works"

\* the positions of the data layer a step appends
Appended == (Len(emitLog) + 1)..Len(emitLog')

\* C3: after dropSectionVisibility(r) has returned, the event of rule r is not
\* emitted for an episode that had started before the removal, neither by a
\* timer armed before the removal nor by a later scroll sample.
C3_NoLateFiringInView ==
  [][\A i \in Appended :
       LET r == emitLog'[i].rule
       IN  (r # 0 /\ r \in DOMAIN droppedAt) => emitLog'[i].episode > droppedAt[r]]_vars

\* C4: an episode that starts after dropSectionVisibility(r) has returned
\* never emits the event of rule r, by the timer or by the scroll path.
C4_NoFiringInLaterEpisodes ==
  \A i \in RuleEvents :
    LET r == emitLog[i].rule
    IN  r \in DOMAIN droppedAt => emitLog[i].episode <= droppedAt[r]

\* rule 1 (20%, 1000 ms) was removed and rule 2 (60%, 2000 ms), of the same
\* selector, has fired in an episode that started after the removal, with a
\* depth and a view time that meet the thresholds of rule 1 too
C4_Witness ==
  /\ 1 \in DOMAIN droppedAt
  /\ \E i \in RuleEvents :
       /\ emitLog[i].rule = 2
       /\ emitLog[i].episode > droppedAt[1]
       /\ dataLayer[i].section = "how-it-works"
       /\ dataLayer[i].scroll_depth >= 60 * 100
       /\ dataLayer[i].view_time >= 2000

\* the registry alone, with every kind of settings argument
AnySettings ==
  [selector : {"", ".c"},
   scrollDepth : {Undefined, 0 - 10, 0, 20, 100, 150},
   viewTime : {Undefined, 0 - 500, 0, 1000},
   customEvent : {"", "seen"}]

NextRegistry ==
  \/ \E st \in AnySettings : AddSectionVisibility("x", st)
  \/ \E id \in 1..MaxRules : DropSectionVisibility(id)

SpecRegistry == Init /\ [][NextRegistry]_vars

\* the timestamps a session cookie of the model can hold
Times == {1000 * k : k \in 0..MaxTicks}

\* C5: once trackUserReturn() has been called on a page, leaving the page
\* writes the session cookie with the current timestamp, whether or not a
\* session cookie existed at startup.
C5_AbandonWritesCookie ==
  [][(pageOpen /\ ~pageOpen' /\ returnCalls > 0)
       => \E i \in 1..Len(cookie') :
            /\ cookie'[i].name = SessionKey(trackingId)
            /\ cookie'[i].value = ToString(now)]_vars

\* C6: a call of trackUserReturn() appends nothing when the jar has no session
\* cookie of the tracking id, and appends exactly the record
\* {event: "return_visit", duration: now - t} when that cookie holds t.
C6_ReturnVisitEvent ==
  [][returnCalls' = returnCalls + 1
       => LET key == SessionKey(trackingId)
          IN  /\ (\A i \in 1..Len(cookie) : cookie[i].name # key)
                   => dataLayer' = dataLayer
              /\ \A t \in Times :
                   (\E i \in 1..Len(cookie) :
                      cookie[i].name = key /\ cookie[i].value = ToString(t))
                   => dataLayer' = Append(dataLayer,
                        [event |-> "return_visit", duration |-> now - t])]_vars

\* on the second load the tracker has reported the 1000 ms since the visit
\* whose abandonment wrote the cookie
C6_Witness ==
  /\ loads = 2
  /\ returnCalls = 1
  /\ dataLayer = <<[event |-> "return_visit", duration |-> 1000]>>
  /\ \E i \in 1..Len(cookie) :
       cookie[i].name = SessionKey(trackingId) /\ cookie[i].value = ToString(1000)

Summaries == {i \in 1..Len(emitLog) : emitLog[i].path \in {"exit", "unload"}}

\* C7: no episode contributes more than one section_view event, counting the
\* unload flush, a repeated run of the unload handler and a later
\* intersection exit together.
C7_OneSummaryPerEpisode ==
  \A i, j \in Summaries : i < j => emitLog[i].episode # emitLog[j].episode

\* episode ep is a re-entry: the log holds the exit summary of an earlier
\* episode of the same element
IsReentry(ep, element) ==
  \E k \in 1..Len(emitLog) :
    /\ emitLog[k].path = "exit"
    /\ emitLog[k].element = element
    /\ emitLog[k].episode < ep

\* C8: an element that enters, exits and re-enters view gets two episodes with
\* distinct ids; each exit summary is that of its own episode; the second
\* episode starts with an empty fired-rule set, so it holds only rules fired
\* in this episode; and a rule that fired in episode 1 fires again at most
\* once in episode 2.
C8_ReentryIndependent ==
  /\ \A i, j \in Summaries :
       (i < j /\ emitLog[i].path = "exit" /\ emitLog[j].path = "exit")
         => emitLog[i].episode # emitLog[j].episode
  /\ \A ep \in DOMAIN sectionMap :
       \A k \in 1..Len(sectionMap[ep].sentEventIds) :
         \E i \in RuleEvents :
           /\ emitLog[i].episode = ep
           /\ emitLog[i].rule = sectionMap[ep].sentEventIds[k]
  /\ \A i, j \in RuleEvents :
       (/\ i < j
        /\ emitLog[i].rule = emitLog[j].rule
        /\ IsReentry(emitLog[j].episode, emitLog[j].element))
         => emitLog[i].episode # emitLog[j].episode

\* C9: every episode keeps 0 <= minScrollDepth <= maxScrollDepth <= 100, and
\* the scroll_depth of every section_view summary is between 0 and 100.
C9_DepthBounds ==
  /\ \A ep \in DOMAIN sectionMap :
       /\ 0 <= sectionMap[ep].minScrollDepth
       /\ sectionMap[ep].minScrollDepth <= sectionMap[ep].maxScrollDepth
       /\ sectionMap[ep].maxScrollDepth <= 100 * 100
  /\ \A i \in Summaries :
       dataLayer[i].scroll_depth >= 0 /\ dataLayer[i].scroll_depth <= 100 * 100

\* C10: the rule stored by addSectionVisibility has the default scroll depth
\* 70 and view time 3000 only where the setting is left out; a supplied
\* scrollDepth v is stored as clamp(v, 0, 100) and a supplied viewTime v as
\* max(v, 0), the value 0 included.
C10_SuppliedValuesStored ==
  (ruleCount > 0 /\ ruleCount \in DOMAIN sectionVisibility)
    => LET stored == sectionVisibility[ruleCount]
           sd == callSettings.scrollDepth
           vt == callSettings.viewTime
       IN  /\ stored.scrollDepth =
                IF sd = Undefined THEN 70 ELSE Min2(100, Max2(0, sd))
           /\ stored.viewTime =
                IF vt = Undefined THEN 3000 ELSE Max2(vt, 0)

\* C11: addSectionVisibility clamps out-of-range thresholds: a supplied
\* scrollDepth above 100 is stored as 100, a negative one as 0, a negative
\* viewTime as 0; every stored rule has 0 <= scrollDepth <= 100 and
\* viewTime >= 0.
C11_ThresholdsClamped ==
  /\ \A id \in DOMAIN sectionVisibility :
       /\ 0 <= sectionVisibility[id].scrollDepth
       /\ sectionVisibility[id].scrollDepth <= 100
       /\ sectionVisibility[id].viewTime >= 0
  /\ \A k \in DOMAIN selectorVisibilityMap :
       \A i \in 1..Len(selectorVisibilityMap[k]) :
         /\ 0 <= selectorVisibilityMap[k][i].scrollDepth
         /\ selectorVisibilityMap[k][i].scrollDepth <= 100
         /\ selectorVisibilityMap[k][i].viewTime >= 0
  /\ (ruleCount > 0 /\ ruleCount \in DOMAIN sectionVisibility)
       => LET stored == sectionVisibility[ruleCount]
              sd == callSettings.scrollDepth
              vt == callSettings.viewTime
          IN  /\ (sd # Undefined /\ sd > 100) => stored.scrollDepth = 100
              /\ (sd # Undefined /\ sd < 0) => stored.scrollDepth = 0
              /\ (vt # Undefined /\ vt < 0) => stored.viewTime = 0

\* the registry holds a rule supplied with scrollDepth 150 and viewTime -500
\* (stored as 100 and 0) and one supplied with scrollDepth -10 (stored as 0)
C11_Witness ==
  /\ 1 \in DOMAIN sectionVisibility
  /\ 2 \in DOMAIN sectionVisibility
  /\ sectionVisibility[1].scrollDepth = 100
  /\ sectionVisibility[1].viewTime = 0
  /\ sectionVisibility[2].scrollDepth = 0
  /\ callSettings.scrollDepth = 0 - 10

\* C12: trackSectionVisibility() is idempotent: after any number of calls
\* there is one intersection observer, one scroll / resize listener pair and
\* one unload-flush handler, and a repeated call emits nothing and leaves the
\* episodes, the timers, the pending frame and (when the scan finds the
\* attributes it would set already set) the tracked elements as they were, so
\* the events of any later activation are those after a single call.
C12_TrackIdempotent ==
  [][/\ mutationObservers' >= 1 => listenerSets' = 1
     /\ (mutationObservers' = mutationObservers + 1 /\ mutationObservers >= 1)
          => /\ UNCHANGED <<sectionMap, dataLayer, emitLog, timers, episodeCount,
                            initialized, listenerSets, ticking, frames, attrId,
                            isIntersecting, registryVars>>
             /\ ((\A e \in inDocument : ScanSelector(e, 1, attrSelector[e]) = attrSelector[e])
                 /\ ScanMatched \subseteq observed)
                  => UNCHANGED <<attrSelector, observed>>]_vars

\* trackSectionVisibility() has been called twice and an episode that
\* started with both rules registered has ended with one rule event and one
\* summary
C12_Witness ==
  /\ mutationObservers = 2
  /\ listenerSets = 1
  /\ Len(emitLog) = 2
  /\ emitLog[1].episode = 1 /\ emitLog[1].rule = 1
  /\ emitLog[2].episode = 1 /\ emitLog[2].path = "exit"

\* C13: dropSectionVisibility(id) with an id that is not registered (never
\* added, or already removed) is a silent no-op: the call completes and leaves
\* the id-keyed rule map and the selector-keyed rule lists as they were (the
\* call touches neither the tracked-state map nor the data layer).
C13_DropUnknownNoOp ==
  \A id \in 1..(MaxRules + 1) :
    id \notin DOMAIN sectionVisibility
      => /\ DropRegistry(id).sectionVisibility = sectionVisibility
         /\ DropRegistry(id).selectorVisibilityMap = selectorVisibilityMap

\* rule 1 has been removed while rule 2 of the same selector is registered,
\* an episode is live and the data layer is not empty: a second removal of
\* rule 1, or a removal of the id 3 that was never minted, is a stale call
C13_Witness ==
  /\ 1 \in DOMAIN droppedAt
  /\ 1 \notin DOMAIN sectionVisibility
  /\ 2 \in DOMAIN sectionVisibility
  /\ Len(selectorVisibilityMap[sectionVisibility[2].selector]) = 1
  /\ DOMAIN sectionMap # {}
  /\ Len(dataLayer) > 0

\* C14: the data layer is append-only under every engine action: the records
\* present before an action are an unchanged prefix of the data layer after
\* it, and each emission of the action adds exactly one record, at the end
\* (a summary for an exit or an unload flush, a rule event otherwise).
C14_AppendOnly ==
  [][/\ Len(dataLayer') >= Len(dataLayer)
     /\ SubSeq(dataLayer', 1, Len(dataLayer)) = dataLayer
     /\ SubSeq(emitLog', 1, Len(emitLog)) = emitLog
     /\ Len(dataLayer') = Len(emitLog')
     /\ \A i \in Appended :
          (emitLog'[i].path \in {"exit", "unload"})
            <=> (dataLayer'[i].event = "section_view")]_vars

\* the data layer holds, in the order of their emission, records of a timer,
\* of a scroll sample and of an unload flush
C14_Witness ==
  \E i, j, k \in 1..Len(emitLog) :
    /\ i < j /\ j < k
    /\ emitLog[i].path = "timer"
    /\ emitLog[j].path = "scroll"
    /\ emitLog[k].path = "unload"

\* C15: at most one scroll-driven recomputation frame is pending at any time:
\* the flag is set exactly while one frame is scheduled, an event that arrives
\* while the flag is set schedules nothing, and the flag is cleared only by
\* the run of the pending frame, so a burst of events between two frames
\* causes one pass.
C15_OneFramePending ==
  [][/\ frames' <= 1
     /\ ticking' <=> (frames' = 1)
     /\ frames' > frames => ~ticking
     /\ (ticking /\ ~ticking') => frames' = frames - 1]_vars

\* a pass has run and emitted a rule event, and a later scroll event has set
\* the flag and scheduled the next frame
C15_Witness ==
  /\ ticking
  /\ frames = 1
  /\ \E i \in 1..Len(emitLog) : emitLog[i].path = "scroll"

\* C16: when the browser keeps running scheduled animation-frame callbacks,
\* every scroll or resize event is eventually followed by a recomputation
\* pass over the episodes live at that time: the flag an event sets (or finds
\* set) never stays set forever.
C16_ScrollLeadsToPass == ticking ~> ~ticking

\* a pass that ran after a scroll event has cleared the flag and emitted the
\* rule event of the live episode from the geometry it read
C16_Witness ==
  /\ ~ticking
  /\ frames = 0
  /\ \E i \in 1..Len(emitLog) :
       /\ emitLog[i].path = "scroll"
       /\ emitLog[i].episode \in DOMAIN sectionMap

\* C17: for a registered rule with viewTime > 0 that was registered before
\* the element entered view: once the rule's timer has fired in a live
\* episode whose interval width is >= the rule's scrollDepth, the rule's
\* event has been emitted for that episode, by the timer itself when the
\* width was reached before it fired (no scroll sample needed), by the scroll
\* sample that reached the width otherwise.
C17_DwellRuleFires ==
  \A ep \in DOMAIN sectionMap :
    \A r \in DOMAIN sectionVisibility :
      LET rule == sectionVisibility[r]
          width == JsSub(sectionMap[ep].maxScrollDepth, sectionMap[ep].minScrollDepth)
      IN  (/\ rule.selector = sectionMap[ep].selector
           /\ rule.viewTime > 0
           /\ addedAt[r] < ep
           /\ ~\E t \in timers : t.id = ep /\ t.setting.id = r
           /\ ~IsNaN(width)
           /\ width >= Pct(rule.scrollDepth))
            => \E i \in RuleEvents : emitLog[i].episode = ep /\ emitLog[i].rule = r

\* rule 1 (20%, 1000 ms) has been emitted by its timer for a live episode
\* that no scroll sample has widened: its bounds are those set on enter (12.5
\* and 62.5), a width of 50
C17_Witness ==
  \E ep \in DOMAIN sectionMap :
    /\ sectionMap[ep].minScrollDepth = 1250
    /\ sectionMap[ep].maxScrollDepth = 6250
    /\ sectionMap[ep].sentEventIds = <<1>>
    /\ 1 \in DOMAIN sectionVisibility
    /\ \E i \in RuleEvents :
         /\ emitLog[i].episode = ep
         /\ emitLog[i].rule = 1
         /\ emitLog[i].path = "timer"
         /\ dataLayer[i].view_time = 1000
         /\ dataLayer[i].scroll_depth = 50 * 100

\* C18: every rule event of the data layer meets its rule's thresholds: its
\* scroll_depth is a width >= the rule's scrollDepth and its view_time is >=
\* the rule's viewTime.
C18_RuleEventMeetsThresholds ==
  \A i \in RuleEvents :
    LET rule == ScriptRule(emitLog[i].rule)
    IN  /\ ~IsNaN(dataLayer[i].scroll_depth)
        /\ dataLayer[i].scroll_depth >= Pct(rule.scrollDepth)
        /\ dataLayer[i].view_time >= rule.viewTime

\* C19: a timer armed in an episode is a no-op once that episode has ended:
\* when it fires after the element left view it emits nothing and changes no
\* episode, also when the same element has re-entered view meanwhile (the
\* timer of episode 1 neither emits for nor marks the fired set of episode 2).
C19_StaleTimerNoOp ==
  [][\A t \in timers \ timers' :
       t.id \notin DOMAIN sectionMap
         => UNCHANGED <<sectionMap, dataLayer, emitLog, registryVars, domVars,
                        episodeCount, ticking, frames>>]_vars

\* episode 1 ended at once (its summary has view_time 0), so its timer, due
\* 1000 ms after the enter, has fired after the exit; the element has
\* re-entered and episode 2, wide enough for rule 1, has no fired rule yet
C19_Witness ==
  /\ Len(emitLog) = 1
  /\ emitLog[1].episode = 1
  /\ emitLog[1].path = "exit"
  /\ dataLayer[1].view_time = 0
  /\ ~\E t \in timers : t.id = 1
  /\ 2 \in DOMAIN sectionMap
  /\ sectionMap[2].element = emitLog[1].element
  /\ sectionMap[2].start < now
  /\ sectionMap[2].sentEventIds = <<>>
  /\ JsSub(sectionMap[2].maxScrollDepth, sectionMap[2].minScrollDepth) >= Pct(20)

\* the live episodes of element e
EpisodesOf(e) == {ep \in DOMAIN sectionMap : sectionMap[ep].element = e}

\* C20: the tracked-state map holds at most one live episode per DOM element
\* and none for an element that is not intersecting: the exit removes the
\* state its enter created, and no enter leaves an earlier state of the same
\* element behind.
C20_OneEpisodePerElement ==
  \A e \in Elements :
    /\ Cardinality(EpisodesOf(e)) <= 1
    /\ ~isIntersecting[e] => EpisodesOf(e) = {}
    /\ \A ep \in EpisodesOf(e) : attrId[e] = ep

\* the element has entered, exited (summary of episode 1 emitted) and
\* re-entered: episode 2 is its only tracked state
C20_Witness ==
  /\ isIntersecting[1]
  /\ EpisodesOf(1) = {2}
  /\ \E i \in 1..Len(emitLog) :
       emitLog[i].episode = 1 /\ emitLog[i].path = "exit" /\ emitLog[i].element = 1

\* a <= b as JavaScript compares numbers: false when either side is NaN
JsLe(a, b) == ~IsNaN(a) /\ ~IsNaN(b) /\ a <= b

\* C21: while an episode lives its depth interval only widens: a scroll
\* sample leaves the minimum not larger and the maximum not smaller than
\* before, and a step that is not a scroll sample changes neither bound; no
\* step changes the start of a live episode.
C21_IntervalOnlyWidens ==
  [][\A ep \in DOMAIN sectionMap \cap DOMAIN sectionMap' :
       /\ sectionMap'[ep].start = sectionMap[ep].start
       /\ JsLe(sectionMap'[ep].minScrollDepth, sectionMap[ep].minScrollDepth)
       /\ JsLe(sectionMap[ep].maxScrollDepth, sectionMap'[ep].maxScrollDepth)
       /\ frames' >= frames
            => /\ sectionMap'[ep].minScrollDepth = sectionMap[ep].minScrollDepth
               /\ sectionMap'[ep].maxScrollDepth = sectionMap[ep].maxScrollDepth]_vars

\* --------------------------------------------------------- DOM mutations
\* an added node that is no candidate section itself (a plain container)
Wrapper == 0

\* a callback that tests the added node only and not its descendants
AddedMatchedRootOnly(root, inside) ==
  {e \in {root} \cap Elements :
     \E i \in 1..Len(selectorKeys) : ElementMatches(e, selectorKeys[i])}

\* the elements the MutationObserver callback hands to #_trackSectionView for
\* one added node: the node itself when it matches a registered selector
\* (case 1) and every descendant of it that does (case 2)
AddedMatched(root, inside) ==
  {e \in ({root} \cup inside) \cap Elements :
     \E i \in 1..Len(selectorKeys) : ElementMatches(e, selectorKeys[i])}

\* A node is appended below document.body (a node already in the document is
\* moved): root is the added node, inside the candidate sections among its
\* descendants.  Every MutationObserver created so far runs its callback with
\* the selectors registered by then; each run tags and observes the same
\* elements, so the runs after the first change nothing.
AddNode(root, inside) ==
  /\ pageOpen
  /\ root \notin inside
  /\ (root = Wrapper) # (inside = {})
  /\ inDocument' = inDocument \cup (({root} \cup inside) \cap Elements)
  /\ IF mutationObservers > 0
     THEN /\ attrSelector' = [e \in Elements |->
                                IF e \in AddedMatched(root, inside)
                                THEN ScanSelector(e, 1, attrSelector[e])
                                ELSE attrSelector[e]]
          /\ observed' = observed \cup AddedMatched(root, inside)
     ELSE UNCHANGED <<attrSelector, observed>>
  /\ UNCHANGED <<registryVars, engineVars, dataLayer, emitLog, now, attrId,
                 isIntersecting, sessionVars, sample>>

\* the registrations of a page script that tracks the how-it-works sections
\* by their attribute and, later, the sections of class c
DomScript ==
  <<[section |-> "how-it-works",
     settings |-> [NoSettings EXCEPT !.scrollDepth = 20, !.viewTime = 1000,
                                     !.customEvent = "how-it-works_view"]],
    [section |-> "c",
     settings |-> [NoSettings EXCEPT !.selector = ".c", !.scrollDepth = 20,
                                     !.viewTime = 1000]]>>

RegisterDom ==
  /\ ruleCount < Len(DomScript)
  /\ AddSectionVisibility(DomScript[ruleCount + 1].section,
                          DomScript[ruleCount + 1].settings)

\* the engine on a page whose script adds sections after its load
NextDom ==
  \/ RegisterDom
  \/ TrackSectionVisibility
  \/ \E root \in Elements \cup {Wrapper}, inside \in SUBSET Elements :
       AddNode(root, inside)
  \/ \E e \in Elements, rect \in Rects : IntersectionEnter(e, rect)
  \/ \E e \in Elements : IntersectionExit(e)
  \/ OnScroll
  \/ \E rects \in [DOMAIN sectionMap -> Rects] : AnimationFrame(rects)

SpecDom == Init /\ [][NextDom]_vars

\* The page of a script that registers the first how-it-works rule and calls
\* trackSectionVisibility() on a document that holds both how-it-works
\* sections: the scan has tagged and observed the two elements.
InitPair ==
  /\ sectionVisibility = <<ScriptRule(1)>>
  /\ selectorVisibilityMap =
       [sel \in {DefaultSelector("how-it-works")} |-> <<ScriptRule(1)>>]
  /\ selectorKeys = <<DefaultSelector("how-it-works")>>
  /\ ruleCount = 1
  /\ callSettings = RuleScript[1].settings
  /\ sectionMap = <<>>
  /\ dataLayer = <<>>
  /\ emitLog = <<>>
  /\ droppedAt = <<>>
  /\ addedAt = <<0>>
  /\ timers = {}
  /\ episodeCount = 0
  /\ inDocument = Elements
  /\ attrSelector = [e \in Elements |-> DefaultSelector("how-it-works")]
  /\ attrId = [e \in Elements |-> 0]
  /\ observed = Elements
  /\ isIntersecting = [e \in Elements |-> FALSE]
  /\ initialized = TRUE
  /\ listenerSets = 1
  /\ ticking = TRUE
  /\ frames = 1
  /\ mutationObservers = 1
  /\ closeTabHandlers = 0
  /\ returnCalls = 0
  /\ pageOpen = TRUE
  /\ unloads = 0
  /\ now = 0
  /\ trackingId = "G1"
  /\ cookie = <<>>
  /\ loads = 1
  /\ sample = NoSample

SpecPair == InitPair /\ [][NextFrames]_vars

\* C22: the exit of an element that has a live episode appends exactly one
\* section_view record to the data layer, with the element's selector as
\* section and now - start as view_time, and removes that episode; it appends
\* no rule event and leaves every other episode and the rule registry as they
\* were.
C22_ExitEmitsOneSummary ==
  [][\A e \in Elements :
       (isIntersecting[e] /\ ~isIntersecting'[e] /\ attrSelector[e] # ""
        /\ attrId[e] \in DOMAIN sectionMap)
         => /\ Len(dataLayer') = Len(dataLayer) + 1
            /\ SubSeq(dataLayer', 1, Len(dataLayer)) = dataLayer
            /\ dataLayer'[Len(dataLayer')].event = "section_view"
            /\ dataLayer'[Len(dataLayer')].section = attrSelector[e]
            /\ dataLayer'[Len(dataLayer')].view_time
                 = now - sectionMap[attrId[e]].start
            /\ emitLog'[Len(emitLog')].rule = 0
            /\ DOMAIN sectionMap' = DOMAIN sectionMap \ {attrId[e]}
            /\ \A ep \in DOMAIN sectionMap' : sectionMap'[ep] = sectionMap[ep]
            /\ UNCHANGED registryVars]_vars

\* element 1 has left the viewport after a dwell of one second without any
\* rule event, its summary is the only record, and the episode of element 2
\* is still live
C22_Witness ==
  /\ Len(emitLog) = 1
  /\ emitLog[1].path = "exit"
  /\ emitLog[1].element = 1
  /\ dataLayer[1].view_time = 1000
  /\ emitLog[1].episode \notin DOMAIN sectionMap
  /\ EpisodesOf(2) # {}

\* the rules of selector k in the id map, as a set of ids
RulesOfSelector(k) ==
  {id \in DOMAIN sectionVisibility : sectionVisibility[id].selector = k}

MatchesRegistered(e) ==
  \E i \in 1..Len(selectorKeys) : ElementMatches(e, selectorKeys[i])

\* C24: once trackSectionVisibility() has run, every element that matches a
\* selector registered at that moment is observed and tagged with a
\* registered selector it matches: the elements in the document at the scan
\* of a trackSectionVisibility() call, and every element added afterwards,
\* as the added node or below it, judged by the selectors registered when it
\* is added; an observed element stays observed.
C24_MatchingElementsObserved ==
  /\ [](\A e \in observed :
          /\ ElementMatches(e, attrSelector[e])
          /\ \E i \in 1..Len(selectorKeys) : selectorKeys[i] = attrSelector[e])
  /\ [][
       /\ observed \subseteq observed'
       /\ mutationObservers' > mutationObservers
            => \A e \in inDocument : MatchesRegistered(e) => e \in observed'
       /\ mutationObservers > 0
            => \A e \in inDocument' \ inDocument :
                 MatchesRegistered(e) => e \in observed'
     ]_vars

\* trackSectionVisibility() ran before any rule was registered (element 1,
\* in the document from the start, is not observed); the two rules were
\* registered afterwards and element 2 was then added: it is observed and
\* tagged with the selector .c
C24_Witness ==
  /\ mutationObservers = 1
  /\ 1 \notin observed
  /\ ruleCount = 2
  /\ 2 \in inDocument
  /\ 2 \in observed
  /\ attrSelector[2] = ".c"

\* C25: for every live episode the episode-id tag of its element is the
\* episode's id and the selector tag of its element is the selector stored in
\* the episode, whatever rules were registered, scans run and nodes added
\* since the enter; the summary of the exit (section = the tag) and the
\* summary of the unload flush (section = the stored selector) then name the
\* same selector.
C25_TagsMatchEpisode ==
  \A ep \in DOMAIN sectionMap :
    /\ attrId[sectionMap[ep].element] = ep
    /\ attrSelector[sectionMap[ep].element] = sectionMap[ep].selector

\* the rules a scroll sample of element e evaluates: the list of the
\* selector in the element's tag
EvaluatedRules(e) ==
  LET settings == MapGet(selectorVisibilityMap, attrSelector[e], <<>>)
  IN  {settings[i].id : i \in 1..Len(settings)}

\* C26: every registered rule whose selector matches a visible element is
\* evaluated for the episode of that element, also when the element matches
\* two registered selectors: once the element's tag reflects the registered
\* selectors, the rule is among those a scroll sample evaluates, and a rule
\* with a dwell threshold that was registered before the enter has its timer
\* armed for the episode.
C26_AllMatchingRulesEvaluated ==
  \A ep \in DOMAIN sectionMap :
    LET e == sectionMap[ep].element
    IN  attrSelector[e] = ScanSelector(e, 1, attrSelector[e])
          => \A id \in DOMAIN sectionVisibility :
               ElementMatches(e, sectionVisibility[id].selector)
                 => /\ id \in EvaluatedRules(e)
                    /\ (sectionVisibility[id].viewTime > 0 /\ addedAt[id] < ep)
                         => \E t \in timers : t.id = ep /\ t.setting.id = id

\* C27: two elements that match the same selector and are visible together
\* are tracked as two episodes with distinct ids, each holding its own
\* element.  A step changes the state of an episode only as that episode's
\* own timer (marking its rule as fired) or as the scroll sample of its own
\* element's rectangle, and removes an episode only as the exit of its own
\* element, whose summary carries that episode's dwell time and depth
\* interval; the enter, scroll sample, timer and exit of one element leave
\* the start, the bounds and the fired set of the other as they were.
C27_EpisodesIndependent ==
  /\ [](\A e \in Elements :
          (isIntersecting[e] /\ attrId[e] \in DOMAIN sectionMap)
            => /\ sectionMap[attrId[e]].element = e
               /\ \A o \in Elements \ {e} : isIntersecting[o] => attrId[o] # attrId[e])
  /\ [][\A ep \in DOMAIN sectionMap :
          LET section == sectionMap[ep]
          IN  /\ (ep \in DOMAIN sectionMap' /\ sectionMap'[ep] # section)
                   => \/ /\ frames' < frames
                         /\ \E rect \in Rects :
                              sectionMap'[ep] = HandleElementScroll(section, rect).section
                      \/ \E t \in timers \ timers' :
                           /\ t.id = ep
                           /\ sectionMap'[ep] =
                                [section EXCEPT !.sentEventIds = Append(@, t.setting.id)]
              /\ ep \notin DOMAIN sectionMap'
                   => /\ isIntersecting[section.element]
                      /\ ~isIntersecting'[section.element]
                      /\ Len(emitLog') = Len(emitLog) + 1
                      /\ emitLog'[Len(emitLog')].episode = ep
                      /\ emitLog'[Len(emitLog')].element = section.element
                      /\ dataLayer'[Len(dataLayer')].view_time = now - section.start
                      /\ dataLayer'[Len(dataLayer')].scroll_depth =
                           JsSub(section.maxScrollDepth, section.minScrollDepth)
       ]_vars

\* the two elements entered at time 0 with different rectangles, the rule
\* fired for the episode of element 2 only, and element 1 left after one
\* second: its summary is emitted and the episode of element 2 lives on
C27_Witness ==
  /\ \E i \in 1..Len(emitLog) :
       /\ emitLog[i].path = "exit"
       /\ emitLog[i].element = 1
       /\ dataLayer[i].view_time = 1000
       /\ dataLayer[i].scroll_depth = 0
  /\ \E ep \in EpisodesOf(2) :
       /\ sectionMap[ep].start = 0
       /\ sectionMap[ep].sentEventIds # <<>>
       /\ JsSub(sectionMap[ep].maxScrollDepth, sectionMap[ep].minScrollDepth) = 5000

\* C28: a tracked element of height 0 contributes depth 0: the bounds of
\* every live episode are numbers between 0 and 100 (the enter of a
\* zero-height element included), a scroll sample that reads a zero-height
\* rectangle leaves them at min(min, 0) and max(max, 0), and every width
\* reported to the data layer is a number.
C28_ZeroHeightDepthZero ==
  /\ \A ep \in DOMAIN sectionMap :
       /\ JsLe(0, sectionMap[ep].minScrollDepth)
       /\ JsLe(sectionMap[ep].maxScrollDepth, Pct(100))
       /\ \A rect \in Rects :
            rect.height = 0
              => LET after == HandleElementScroll(sectionMap[ep], rect).section
                 IN  /\ after.minScrollDepth = JsMin(sectionMap[ep].minScrollDepth, 0)
                     /\ after.maxScrollDepth = JsMax(sectionMap[ep].maxScrollDepth, 0)
  /\ \A i \in 1..Len(dataLayer) : ~IsNaN(dataLayer[i].scroll_depth)

\* ------------------------------------------------------ viewport geometry
\* the rectangles getBoundingClientRect can report for an element up to
\* MaxHeight pixels high whose top lies within MaxTop pixels of the
\* viewport's top edge
GeoRects == [top : (0 - MaxTop)..MaxTop, height : 0..MaxHeight]

\* the geometry part of handleElementScroll on the rectangle last read
SampleDepth ==
  /\ ~sample.taken
  /\ sample' = [rect |-> sample.rect,
                taken |-> TRUE,
                ratioTop |-> RatioTop(sample.rect),
                visibleRatio |-> VisibleRatio(sample.rect),
                depth |-> Depth(sample.rect)]
  /\ UNCHANGED <<registryVars, engineVars, dataLayer, emitLog, now, domVars,
                 sessionVars>>

InitGeometry ==
  /\ FreshPage
  /\ now = 0
  /\ trackingId = "G1"
  /\ cookie = <<>>
  /\ loads = 1
  /\ sample \in {[NoSample EXCEPT !.rect = rect] : rect \in GeoRects}

SpecGeometry == InitGeometry /\ [][SampleDepth]_vars

\* the height of the part of the element that lies inside the viewport
Overlap(rect) ==
  Max2(0, Min2(rect.top + rect.height, ViewportHeight) - Max2(rect.top, 0))

\* value is the quotient num / den, as a percentage in hundredths, rounded
\* to the nearest multiple of unit hundredths
RoundedTo(value, num, den, unit) ==
  /\ value >= 0
  /\ value % unit = 0
  /\ 2 * (value * den - 10000 * num) <= unit * den
  /\ 2 * (10000 * num - value * den) <= unit * den

\* the original statement of C29: for a height above 0 the depth of a scroll
\* sample is exactly min(max(0, -top) / height * 100 + overlap / height * 100,
\* 100), it lies in [0,100] and is 100 when the bottom of the element is
\* above the viewport.
C29_DepthExact ==
  (sample.taken /\ sample.rect.height > 0)
    => /\ sample.depth * sample.rect.height =
            Min2(10000 * (Max2(0, 0 - sample.rect.top) + Overlap(sample.rect)),
                 10000 * sample.rect.height)
       /\ 0 <= sample.depth /\ sample.depth <= 10000
       /\ sample.rect.top + sample.rect.height < 0 => sample.depth = 10000

\* C29: for a height above 0 the depth of a scroll sample is
\* min(scrolledPastRatio + visibleRatio, 100), where scrolledPastRatio is
\* max(0, -top) / height * 100 rounded to two decimals and visibleRatio is
\* overlap / height * 100 rounded to a whole percent (0 when the element is
\* entirely above or below the viewport); the depth lies in [0,100] and is
\* 100 when the bottom of the element is above the viewport.
C29_DepthRounded ==
  (sample.taken /\ sample.rect.height > 0)
    => /\ RoundedTo(sample.ratioTop, Max2(0, 0 - sample.rect.top),
                    sample.rect.height, 1)
       /\ IF sample.rect.top + sample.rect.height < 0
             \/ sample.rect.top > ViewportHeight
          THEN sample.visibleRatio = 0
          ELSE RoundedTo(sample.visibleRatio, Overlap(sample.rect),
                         sample.rect.height, 100)
       /\ sample.depth = Min2(sample.ratioTop + sample.visibleRatio, 10000)
       /\ 0 <= sample.depth /\ sample.depth <= 10000
       /\ sample.rect.top + sample.rect.height < 0 => sample.depth = 10000

\* an element 8 pixels high with its top 1 pixel below the top of the
\* 4-pixel viewport: 3 of 8 pixels are visible, 37.5 %, sampled as depth 38
C29_Witness ==
  /\ sample.taken
  /\ sample.rect = [top |-> 1, height |-> 8]
  /\ sample.ratioTop = 0
  /\ sample.depth = 3800

\* ------------------------------------------- the legacy class InternalGA
\* In the specification of this class sectionMap is its #sectionMap, a list
\* of entries [key, value] in insertion order.  A key is a string of either
\* kind the class uses: the data-internal-view value of an element or an
\* episode id minted by randomUUID.

\* the data-internal-view attribute of the page's elements
DataInternalView(e) == "how-it-works"

SelectorKey(selector) == [selector |-> selector, id |-> 0]
IdKey(id) == [selector |-> "", id |-> id]

LegacyHas(m, k) == \E i \in 1..Len(m) : m[i].key = k

LegacyGet(m, k) == m[CHOOSE i \in 1..Len(m) : m[i].key = k].value

\* Map.prototype.set: a new key goes to the end, a known key keeps its place
LegacySet(m, k, v) ==
  IF LegacyHas(m, k)
  THEN [i \in 1..Len(m) |-> IF m[i].key = k THEN [key |-> k, value |-> v] ELSE m[i]]
  ELSE Append(m, [key |-> k, value |-> v])

LegacyDelete(m, k) == SelectSeq(m, LAMBDA entry : entry.key # k)

\* IntersectionObserver callback of InternalGA, entry.isIntersecting = true
LegacyEnter(e, rect) ==
  /\ pageOpen
  /\ e \in observed
  /\ ~isIntersecting[e]
  /\ RectIntersects(rect)
  /\ episodeCount < MaxLegacyIds
  /\ isIntersecting' = [isIntersecting EXCEPT ![e] = TRUE]
  /\ LET id == episodeCount + 1
         selector == DataInternalView(e)
     IN  /\ episodeCount' = id
         /\ attrId' = [attrId EXCEPT ![e] = id]
         /\ sectionMap' = LegacySet(sectionMap, SelectorKey(selector),
                            [start |-> now,
                             duration |-> 0,
                             minScrollDepth |-> IntersectionRatioPct(rect),
                             maxScrollDepth |-> IntersectionRatioPct(rect),
                             element |-> e,
                             id |-> id])
  /\ UNCHANGED <<registryVars, dataLayer, emitLog, timers, now, inDocument,
                 attrSelector, observed, initialized, listenerSets, ticking, frames,
                 mutationObservers, sessionVars, sample>>

\* IntersectionObserver callback of InternalGA, entry.isIntersecting = false
LegacyExit(e) ==
  /\ pageOpen
  /\ e \in observed
  /\ isIntersecting[e]
  /\ episodeCount < MaxLegacyIds
  /\ isIntersecting' = [isIntersecting EXCEPT ![e] = FALSE]
  /\ episodeCount' = episodeCount + 1
  /\ attrId' = [attrId EXCEPT ![e] = episodeCount + 1]
  /\ LET selector == DataInternalView(e)
     IN  IF ~LegacyHas(sectionMap, SelectorKey(selector))
         THEN UNCHANGED <<sectionMap, dataLayer, emitLog>>
         ELSE LET tracked == LegacyGet(sectionMap, SelectorKey(selector))
              IN  /\ SendInternalGAEvent(
                       <<SummaryPayload(selector, now - tracked.start,
                           JsSub(tracked.maxScrollDepth, tracked.minScrollDepth))>>,
                       <<LogEntry(tracked.id, tracked.element, 0, "exit")>>)
                  /\ sectionMap' = LegacyDelete(sectionMap, SelectorKey(selector))
  /\ UNCHANGED <<registryVars, timers, now, inDocument, attrSelector, observed,
                 initialized, listenerSets, ticking, frames, mutationObservers,
                 sessionVars, sample>>

\* scrollDepth of the legacy handleElementScroll
LegacyScrollDepth(rect) ==
  LET elementTop == rect.top
      elementBottom == rect.top + rect.height
      elementHeight == rect.height
  IN  IF elementBottom < 0 THEN Pct(100)
      ELSE IF elementTop > ViewportHeight THEN 0
      ELSE LET visibleTop == Max2(0, 0 - elementTop)
               visibleBottom == Min2(elementHeight, ViewportHeight - elementTop)
               visibleHeight == Max2(0, visibleBottom - visibleTop)
           IN  IF elementHeight > 0 THEN RoundPct(visibleHeight, elementHeight) ELSE 0

\* sections.forEach(handleElementScroll) on the values the map held when the
\* frame began.  The values are objects: the entries that hold the object of
\* one episode all show its new bounds, and the object is set under its id.
RECURSIVE LegacyFramePass(_, _, _, _)
LegacyFramePass(sections, i, rects, map) ==
  IF i > Len(sections) THEN map
  ELSE LET id == sections[i].value.id
           section == map[CHOOSE j \in 1..Len(map) : map[j].value.id = id].value
           scrollDepth == LegacyScrollDepth(rects[section.element])
           after == [section EXCEPT
                       !.minScrollDepth = JsMin(section.minScrollDepth, scrollDepth),
                       !.maxScrollDepth = JsMax(section.maxScrollDepth, scrollDepth)]
           shared == [j \in 1..Len(map) |->
                        IF map[j].value.id = id
                        THEN [key |-> map[j].key, value |-> after]
                        ELSE map[j]]
       IN  LegacyFramePass(sections, i + 1, rects, LegacySet(shared, IdKey(id), after))

\* the scroll / resize listener of InternalGA
LegacyOnScroll ==
  /\ pageOpen
  /\ IF ~ticking
     THEN ticking' = TRUE /\ frames' = frames + 1
     ELSE UNCHANGED <<ticking, frames>>
  /\ UNCHANGED <<registryVars, sectionMap, dataLayer, emitLog, timers, now,
                 episodeCount, domVars, initialized, listenerSets, mutationObservers,
                 sessionVars, sample>>

\* the requestAnimationFrame callback of InternalGA; rects is the geometry
\* of the elements when it runs
LegacyAnimationFrame(rects) ==
  /\ pageOpen
  /\ frames > 0
  /\ frames' = frames - 1
  /\ ticking' = FALSE
  /\ sectionMap' = LegacyFramePass(sectionMap, 1, rects, sectionMap)
  /\ UNCHANGED <<registryVars, dataLayer, emitLog, timers, now, episodeCount,
                 domVars, initialized, listenerSets, mutationObservers, sessionVars,
                 sample>>

\* sendLastSection of InternalGA: one summary per entry of the map
RECURSIVE LegacyLastSections(_, _)
LegacyLastSections(sections, i) ==
  IF i > Len(sections) THEN [payloads |-> <<>>, logs |-> <<>>]
  ELSE LET section == sections[i].value
           rest == LegacyLastSections(sections, i + 1)
       IN  [payloads |->
              <<SummaryPayload(DataInternalView(section.element), now - section.start,
                               JsSub(section.maxScrollDepth, section.minScrollDepth))>>
              \o rest.payloads,
            logs |-> <<LogEntry(section.id, section.element, 0, "unload")>> \o rest.logs]

\* the unload event of the page
LegacyUnload ==
  /\ pageOpen
  /\ pageOpen' = FALSE
  /\ unloads' = unloads + 1
  /\ LET r == LegacyLastSections(sectionMap, 1)
     IN  SendInternalGAEvent(r.payloads, r.logs)
  /\ UNCHANGED <<registryVars, engineVars, now, domVars, trackingId, cookie,
                 closeTabHandlers, returnCalls, loads, sample>>

\* the page once the legacy script has run main(): the constructor has
\* attached the listeners and called onScroll(), no session cookie was found,
\* and trackSectionVisibility() observes the two [data-internal-view] elements
InitLegacy ==
  /\ sectionVisibility = <<>>
  /\ selectorVisibilityMap = <<>>
  /\ selectorKeys = <<>>
  /\ sectionMap = <<>>
  /\ dataLayer = <<>>
  /\ emitLog = <<>>
  /\ droppedAt = <<>>
  /\ addedAt = <<>>
  /\ callSettings = NoSettings
  /\ timers = {}
  /\ ruleCount = 0
  /\ episodeCount = 0
  /\ inDocument = Elements
  /\ attrSelector = [e \in Elements |-> ""]
  /\ attrId = [e \in Elements |-> 0]
  /\ observed = Elements
  /\ isIntersecting = [e \in Elements |-> FALSE]
  /\ initialized = FALSE
  /\ listenerSets = 1
  /\ ticking = TRUE
  /\ frames = 1
  /\ mutationObservers = 1
  /\ closeTabHandlers = 1
  /\ returnCalls = 1
  /\ pageOpen = TRUE
  /\ unloads = 0
  /\ now = 0
  /\ trackingId = "G1"
  /\ cookie = <<>>
  /\ loads = 1
  /\ sample = NoSample

NextLegacy ==
  \/ \E e \in Elements, rect \in Rects : LegacyEnter(e, rect)
  \/ \E e \in Elements : LegacyExit(e)
  \/ LegacyOnScroll
  \/ \E rects \in [Elements -> Rects] : LegacyAnimationFrame(rects)
  \/ LegacyUnload
  \/ Tick

SpecLegacy == InitLegacy /\ [][NextLegacy]_vars

\* the summaries in the data layer that stem from episode id
LegacySummaries(id) ==
  {i \in 1..Len(emitLog) : emitLog[i].episode = id /\ emitLog[i].rule = 0}

\* C30: the legacy class tracks sections that share a data-internal-view
\* value separately by their unique id: every visible element has a tracked
\* record of its own, no episode has two entries in the map (a scroll sample
\* adds none), and at most one section_view is emitted per episode, by the
\* exit of its own element or by the unload.
C30_LegacyTracksById ==
  /\ \A e \in Elements :
       isIntersecting[e]
         => \E i \in 1..Len(sectionMap) : sectionMap[i].value.element = e
  /\ \A i, j \in 1..Len(sectionMap) :
       sectionMap[i].value.id = sectionMap[j].value.id => i = j
  /\ \A id \in 1..MaxLegacyIds : Cardinality(LegacySummaries(id)) <= 1

====
